---- MODULE Spec2Model ----
(***************************************************************************)
(* Model of sc_client/client/_resonse_processor.py: the command-to-decoder *)
(* dispatch (ResponseProcessor.run) and the eleven per-command response    *)
(* processors, together with the session's event registry that the two    *)
(* event processors mutate.                                                *)
(*                                                                         *)
(* Python values whose dynamic type decides the control flow are modelled  *)
(* as records [type, val]; a dict's .get(key) of a missing key is PyNone.  *)
(* A processor yields [ret, err, reads, registry]: the returned value, the *)
(* exception raised ("none" when it returns), the envelope keys it read    *)
(* with response.get, and the event registry it leaves behind.             *)
(***************************************************************************)
EXTENDS Integers, Sequences, FiniteSets, TLC

VARIABLES registry, pc, call, out

vars == <<registry, pc, call, out>>

\* ---- bounds ----
MaxId == 2
MaxLen == 2

Ids == 1..MaxId
RawIds == {10, 20}
AddrLists == {<<>>, <<10>>, <<10, 20>>, <<20, 10>>}
Subscriptions ==
    {[event_type |-> "add_outgoing_edge", callback |-> "cb1"],
     [event_type |-> "remove_element", callback |-> "cb2"],
     [event_type |-> "add_outgoing_edge", callback |-> "cb2"]}
AliasMaps == {[x |-> 0], [x |-> 1]}
Tags == {"string", "int", "binary", "float", "unknown_tag", "String"}

SeqsUpTo(S, n) == UNION {[1..k -> S] : k \in 0..n}

\* ---- Python values ----
PyNone == [type |-> "NoneType", val |-> <<>>]
PyList(s) == [type |-> "list", val |-> s]
PyDict(d) == [type |-> "dict", val |-> d]
PyBool(b) == [type |-> "bool", val |-> b]
PyStr(s) == [type |-> "str", val |-> s]
PyInt(n) == [type |-> "int", val |-> n]
PyEq(a, b) == a.type = b.type /\ a.val = b.val
Truthy(p) == p.type = "list" /\ Len(p.val) > 0

\* ---- sc_client.models / sc_client.constants ----
ScAddr(v) == [value |-> v]
ScType(v) == [bitmask |-> v]
ScEvent(id, event_type, callback) ==
    [id |-> id, event_type |-> event_type, callback |-> callback]
ScTemplateResult(addrs, aliases) == [addrs |-> addrs, aliases |-> aliases]
ScLinkContent(data, content_type) == [data |-> data, content_type |-> content_type]
ScLinkContentType ==
    [STRING |-> [type |-> "ScLinkContentType", val |-> "STRING"],
     INT    |-> [type |-> "ScLinkContentType", val |-> "INT"],
     BINARY |-> [type |-> "ScLinkContentType", val |-> "BINARY"],
     FLOAT  |-> [type |-> "ScLinkContentType", val |-> "FLOAT"]]
common ==
    [STRING |-> "string", INT |-> "int", BINARY |-> "binary", FLOAT |-> "float",
     STATUS |-> "status", PAYLOAD |-> "payload"]
ClientCommand ==
    {"CREATE_ELEMENTS", "CHECK_ELEMENTS", "DELETE_ELEMENTS", "KEYNODES",
     "GET_LINK_CONTENT", "GET_LINKS_BY_CONTENT", "SET_LINK_CONTENTS",
     "EVENTS_CREATE", "EVENTS_DESTROY", "GENERATE_TEMPLATE", "SEARCH_TEMPLATE"}

\* ---- sc_client.session: the process-wide event registry ----
EmptyRegistry == [i \in {} |-> ScEvent(0, "", "")]
set_event(reg, sc_event) ==
    [i \in DOMAIN reg \cup {sc_event.id} |-> IF i = sc_event.id THEN sc_event ELSE reg[i]]
drop_event(reg, event_id) ==
    [i \in DOMAIN reg \ {event_id} |-> reg[i]]

\* ---- processor outcomes ----
Returns(ret, reads, reg) ==
    [ret |-> ret, err |-> "none", reads |-> reads, registry |-> reg]
Raises(err, reads, reg) ==
    [ret |-> PyNone, err |-> err, reads |-> reads, registry |-> reg]

\* [ScAddr(v) for v in s], [ScType(v) for v in s], [[ScAddr(v) for v in l] for l in s]
ScAddrs(s) == [i \in 1..Len(s) |-> ScAddr(s[i])]
ScTypes(s) == [i \in 1..Len(s) |-> ScType(s[i])]
ScAddrLists(s) == [i \in 1..Len(s) |-> ScAddrs(s[i])]

CreateElementsResponseProcessor(response, events, reg) ==
    LET payload == response.payload IN
    IF payload.type = "list"
    THEN Returns(PyList(ScAddrs(payload.val)), {common.PAYLOAD}, reg)
    ELSE Raises("TypeError", {common.PAYLOAD}, reg)

CheckElementsResponseProcessor(response, events, reg) ==
    LET payload == response.payload IN
    IF payload.type = "list"
    THEN Returns(PyList(ScTypes(payload.val)), {common.PAYLOAD}, reg)
    ELSE Raises("TypeError", {common.PAYLOAD}, reg)

DeleteElementsResponseProcessor(response, events, reg) ==
    Returns(PyBool(response.status), {common.STATUS}, reg)

SetLinkContentResponseProcessor(response, events, reg) ==
    Returns(PyBool(response.status), {common.STATUS}, reg)

\* lines 41-49: the if/elif chain over the wire type tag
ContentTypeNoFloat(str_type) ==
    IF PyEq(str_type, PyStr(common.STRING)) THEN ScLinkContentType.STRING
    ELSE IF PyEq(str_type, PyStr(common.INT)) THEN ScLinkContentType.INT
    ELSE IF PyEq(str_type, PyStr(common.BINARY)) THEN ScLinkContentType.BINARY
    ELSE PyInt(0)

ContentType(str_type) ==
    IF PyEq(str_type, PyStr(common.STRING)) THEN ScLinkContentType.STRING
    ELSE IF PyEq(str_type, PyStr(common.INT)) THEN ScLinkContentType.INT
    ELSE IF PyEq(str_type, PyStr(common.BINARY)) THEN ScLinkContentType.BINARY
    ELSE IF PyEq(str_type, PyStr(common.FLOAT)) THEN ScLinkContentType.FLOAT
    ELSE PyInt(0)

GetLinkContentResponseProcessor(response, events, reg) ==
    LET payload == response.payload IN
    IF payload.type # "list" THEN Raises("TypeError", {common.PAYLOAD}, reg)
    ELSE IF Len(payload.val) = 0 THEN Raises("IndexError", {common.PAYLOAD}, reg)
    ELSE LET response_payload == payload.val[1]
             str_type == response_payload.type
             content_type == ContentType(str_type)
         IN  Returns(ScLinkContent(response_payload.value, content_type),
                     {common.PAYLOAD}, reg)

GetLinksByContentResponseProcessor(response, events, reg) ==
    LET response_payload == response.payload
    IN  IF Truthy(response_payload)
        THEN Returns(PyList(ScAddrLists(response_payload.val)), {common.PAYLOAD}, reg)
        ELSE Returns(response_payload, {common.PAYLOAD}, reg)

ResolveKeynodesResponseProcessor(response, events, reg) ==
    LET response_payload == response.payload IN
    IF Truthy(response_payload)
    THEN Returns(PyList(ScAddrs(response_payload.val)), {common.PAYLOAD}, reg)
    ELSE Returns([type |-> "Response", val |-> response], {common.PAYLOAD}, reg)

\* lines 77-78: one Template Result per inner address sequence
TemplateSearchItemNoAliases(addrs_list, aliases) ==
    ScTemplateResult(ScAddrs(addrs_list), PyNone)

TemplateSearchItem(addrs_list, aliases) ==
    ScTemplateResult(ScAddrs(addrs_list), aliases)

\* lines 76-78: the for loop, appending to result
RECURSIVE TemplateSearchLoop(_, _, _, _)
TemplateSearchLoop(all_addrs, aliases, k, result) ==
    IF k > Len(all_addrs) THEN result
    ELSE TemplateSearchLoop(all_addrs, aliases, k + 1,
                            Append(result, TemplateSearchItem(all_addrs[k], aliases)))

TemplateSearchBody(response, reg) ==
    LET response_payload == response.payload
        reads == {common.STATUS, common.PAYLOAD}
    IN  IF response_payload.type # "dict" THEN Raises("AttributeError", reads, reg)
        ELSE LET aliases == response_payload.val.aliases
                 all_addrs == response_payload.val.addrs
             IN  IF all_addrs.type # "list" THEN Raises("TypeError", reads, reg)
                 ELSE Returns(PyList(TemplateSearchLoop(all_addrs.val, aliases, 1, <<>>)),
                              reads, reg)

TemplateSearchEager(response, events, reg) ==
    LET response_payload == response.payload
        reads == {common.STATUS, common.PAYLOAD}
    IN  IF response_payload.type # "dict" THEN Raises("AttributeError", reads, reg)
        ELSE IF response.status THEN TemplateSearchBody(response, reg)
        ELSE Returns(PyList(<<>>), reads, reg)

TemplateSearchResponseProcessor(response, events, reg) ==
    IF response.status
    THEN TemplateSearchBody(response, reg)
    ELSE Returns(PyList(<<>>), {common.STATUS}, reg)

TemplateGenerateResponseProcessor(response, events, reg) ==
    IF response.status
    THEN LET response_payload == response.payload
             reads == {common.STATUS, common.PAYLOAD}
         IN  IF response_payload.type # "dict" THEN Raises("AttributeError", reads, reg)
             ELSE LET aliases == response_payload.val.aliases
                      addrs_list == response_payload.val.addrs
                  IN  IF addrs_list.type # "list" THEN Raises("TypeError", reads, reg)
                      ELSE Returns([type |-> "ScTemplateResult",
                                    val |-> ScTemplateResult(ScAddrs(addrs_list.val), aliases)],
                                   reads, reg)
    ELSE Returns(PyNone, {common.STATUS}, reg)

\* lines 98-99: the event built at position count
NewEventKeepId(response_payload, count, event) ==
    ScEvent(event.id, event.event_type, event.callback)

NewEvent(response_payload, count, event) ==
    ScEvent(response_payload.val[count], event.event_type, event.callback)

\* lines 97-101: the for loop; an exception leaves the registrations made so far
RECURSIVE EventsCreateLoop(_, _, _, _, _)
EventsCreateLoop(response, events, count, result, reg) ==
    LET payload == response.payload IN
    IF count > Len(events) THEN Returns(PyList(result), IF Len(events) = 0 THEN {} ELSE {common.PAYLOAD}, reg)
    ELSE IF payload.type # "list" THEN Raises("TypeError", {common.PAYLOAD}, reg)
    ELSE IF count > Len(payload.val) THEN Raises("IndexError", {common.PAYLOAD}, reg)
    ELSE LET sc_event == NewEvent(payload, count, events[count])
         IN  EventsCreateLoop(response, events, count + 1,
                              Append(result, sc_event), set_event(reg, sc_event))

EventsCreateResponseProcessor(response, events, reg) ==
    EventsCreateLoop(response, events, 1, <<>>, reg)

\* lines 107-108: the for loop over the request's events
RECURSIVE EventsDestroyLoop(_, _, _)
EventsDestroyLoop(events, k, reg) ==
    IF k > Len(events) THEN reg
    ELSE EventsDestroyLoop(events, k + 1, drop_event(reg, events[k].id))

EventsDestroyOnSuccess(response, events, reg) ==
    Returns(PyBool(response.status), {common.STATUS},
            IF response.status THEN EventsDestroyLoop(events, 1, reg) ELSE reg)

EventsDestroyResponseProcessor(response, events, reg) ==
    Returns(PyBool(response.status), {common.STATUS}, EventsDestroyLoop(events, 1, reg))

\* ---- ResponseProcessor ----
WrongMapper ==
    [request_type \in ClientCommand |->
        CASE request_type = "CREATE_ELEMENTS" -> "CreateElementsResponseProcessor"
          [] request_type = "CHECK_ELEMENTS" -> "CheckElementsResponseProcessor"
          [] request_type = "DELETE_ELEMENTS" -> "EventsDestroyResponseProcessor"
          [] request_type = "KEYNODES" -> "ResolveKeynodesResponseProcessor"
          [] request_type = "GET_LINK_CONTENT" -> "GetLinkContentResponseProcessor"
          [] request_type = "GET_LINKS_BY_CONTENT" -> "GetLinksByContentResponseProcessor"
          [] request_type = "SET_LINK_CONTENTS" -> "SetLinkContentResponseProcessor"
          [] request_type = "EVENTS_CREATE" -> "EventsCreateResponseProcessor"
          [] request_type = "EVENTS_DESTROY" -> "DeleteElementsResponseProcessor"
          [] request_type = "GENERATE_TEMPLATE" -> "TemplateGenerateResponseProcessor"
          [] request_type = "SEARCH_TEMPLATE" -> "TemplateSearchResponseProcessor"]

response_request_mapper ==
    [request_type \in ClientCommand |->
        CASE request_type = "CREATE_ELEMENTS" -> "CreateElementsResponseProcessor"
          [] request_type = "CHECK_ELEMENTS" -> "CheckElementsResponseProcessor"
          [] request_type = "DELETE_ELEMENTS" -> "DeleteElementsResponseProcessor"
          [] request_type = "KEYNODES" -> "ResolveKeynodesResponseProcessor"
          [] request_type = "GET_LINK_CONTENT" -> "GetLinkContentResponseProcessor"
          [] request_type = "GET_LINKS_BY_CONTENT" -> "GetLinksByContentResponseProcessor"
          [] request_type = "SET_LINK_CONTENTS" -> "SetLinkContentResponseProcessor"
          [] request_type = "EVENTS_CREATE" -> "EventsCreateResponseProcessor"
          [] request_type = "EVENTS_DESTROY" -> "EventsDestroyResponseProcessor"
          [] request_type = "GENERATE_TEMPLATE" -> "TemplateGenerateResponseProcessor"
          [] request_type = "SEARCH_TEMPLATE" -> "TemplateSearchResponseProcessor"]

\* response_processor(*args): the call of the selected processor object
Invoke(response_processor, response, events, reg) ==
    CASE response_processor = "CreateElementsResponseProcessor" ->
            CreateElementsResponseProcessor(response, events, reg)
      [] response_processor = "CheckElementsResponseProcessor" ->
            CheckElementsResponseProcessor(response, events, reg)
      [] response_processor = "DeleteElementsResponseProcessor" ->
            DeleteElementsResponseProcessor(response, events, reg)
      [] response_processor = "ResolveKeynodesResponseProcessor" ->
            ResolveKeynodesResponseProcessor(response, events, reg)
      [] response_processor = "GetLinkContentResponseProcessor" ->
            GetLinkContentResponseProcessor(response, events, reg)
      [] response_processor = "GetLinksByContentResponseProcessor" ->
            GetLinksByContentResponseProcessor(response, events, reg)
      [] response_processor = "SetLinkContentResponseProcessor" ->
            SetLinkContentResponseProcessor(response, events, reg)
      [] response_processor = "EventsCreateResponseProcessor" ->
            EventsCreateResponseProcessor(response, events, reg)
      [] response_processor = "EventsDestroyResponseProcessor" ->
            EventsDestroyResponseProcessor(response, events, reg)
      [] response_processor = "TemplateGenerateResponseProcessor" ->
            TemplateGenerateResponseProcessor(response, events, reg)
      [] response_processor = "TemplateSearchResponseProcessor" ->
            TemplateSearchResponseProcessor(response, events, reg)

run(request_type, response, events, reg) ==
    LET response_processor == response_request_mapper[request_type]
    IN  [by |-> response_processor] @@ Invoke(response_processor, response, events, reg)

\* ---- envelopes and request contexts delivered by the transport ----
Events == {ScEvent(i, s.event_type, s.callback) : i \in Ids, s \in Subscriptions}
Descriptors == {ScEvent(0, s.event_type, s.callback) : s \in Subscriptions}

Envelopes(payloads) == [status : BOOLEAN, payload : payloads]
IdListPayloads == {PyNone} \cup {PyList(s) : s \in SeqsUpTo(RawIds, MaxLen)}
NoPayloads == {PyNone, PyList(<<>>)}
LinkElements ==
    [type : {PyNone} \cup {PyStr(t) : t \in Tags},
     value : {PyNone, PyStr("text"), PyInt(42)}]
LinkPayloads ==
    {PyNone, PyList(<<>>)} \cup {PyList(<<e>>) : e \in LinkElements}
        \cup {PyList(<<e, e>>) : e \in LinkElements}
LinksByContentPayloads == {PyNone} \cup {PyList(s) : s \in SeqsUpTo(AddrLists, MaxLen)}
AliasValues == {PyNone} \cup {PyDict(a) : a \in AliasMaps}
TemplateSearchPayloads ==
    NoPayloads \cup
    {PyDict([aliases |-> a, addrs |-> d]) :
        a \in AliasValues,
        d \in {PyNone} \cup {PyList(s) : s \in SeqsUpTo(AddrLists, MaxLen)}}
TemplateGeneratePayloads ==
    NoPayloads \cup
    {PyDict([aliases |-> a, addrs |-> d]) :
        a \in AliasValues,
        d \in {PyNone} \cup {PyList(s) : s \in SeqsUpTo(RawIds, MaxLen)}}
EventIdPayloads == {PyNone} \cup {PyList(s) : s \in SeqsUpTo(Ids, MaxLen)}

\* request contexts of the commands that carry no events: nothing, or a registered event
OtherContexts == {<<>>} \cup {<<registry[i]>> : i \in DOMAIN registry}

NoCall ==
    [kind |-> "none", response |-> [status |-> FALSE, payload |-> PyNone],
     events |-> <<>>, pre |-> EmptyRegistry]
NoOut == [by |-> "none", ret |-> PyNone, err |-> "none", reads |-> {}]

Init ==
    /\ registry = EmptyRegistry
    /\ pc = "idle"
    /\ call = NoCall
    /\ out = NoOut

\* ResponseProcessor.run(request_type, response, *events)
Run(request_type, response, events) ==
    /\ LET o == run(request_type, response, events, registry) IN
         /\ registry' = o.registry
         /\ out' = [by |-> o.by, ret |-> o.ret, err |-> o.err, reads |-> o.reads]
    /\ call' = [kind |-> request_type, response |-> response, events |-> events,
                pre |-> registry]
    /\ pc' = "done"

CreateElements ==
    /\ pc = "idle"
    /\ \E r \in Envelopes(IdListPayloads), c \in OtherContexts : Run("CREATE_ELEMENTS", r, c)
CheckElements ==
    /\ pc = "idle"
    /\ \E r \in Envelopes(IdListPayloads), c \in OtherContexts : Run("CHECK_ELEMENTS", r, c)
DeleteElements ==
    /\ pc = "idle"
    /\ \E r \in Envelopes(NoPayloads), c \in OtherContexts : Run("DELETE_ELEMENTS", r, c)
ResolveKeynodes ==
    /\ pc = "idle"
    /\ \E r \in Envelopes(IdListPayloads), c \in OtherContexts : Run("KEYNODES", r, c)
GetLinkContent ==
    /\ pc = "idle"
    /\ \E r \in Envelopes(LinkPayloads), c \in OtherContexts : Run("GET_LINK_CONTENT", r, c)
GetLinksByContent ==
    /\ pc = "idle"
    /\ \E r \in Envelopes(LinksByContentPayloads), c \in OtherContexts :
        Run("GET_LINKS_BY_CONTENT", r, c)
SetLinkContents ==
    /\ pc = "idle"
    /\ \E r \in Envelopes(NoPayloads), c \in OtherContexts : Run("SET_LINK_CONTENTS", r, c)
EventsCreate ==
    /\ pc = "idle"
    /\ \E r \in Envelopes(EventIdPayloads), c \in SeqsUpTo(Descriptors, MaxLen) :
        Run("EVENTS_CREATE", r, c)
EventsDestroy ==
    /\ pc = "idle"
    /\ \E r \in Envelopes(NoPayloads), c \in SeqsUpTo(Events, MaxLen) :
        Run("EVENTS_DESTROY", r, c)
GenerateTemplate ==
    /\ pc = "idle"
    /\ \E r \in Envelopes(TemplateGeneratePayloads), c \in OtherContexts :
        Run("GENERATE_TEMPLATE", r, c)
SearchTemplate ==
    /\ pc = "idle"
    /\ \E r \in Envelopes(TemplateSearchPayloads), c \in OtherContexts :
        Run("SEARCH_TEMPLATE", r, c)

\* the caller takes the result (or the exception) and the client is idle again
Return ==
    /\ pc = "done"
    /\ pc' = "idle"
    /\ call' = NoCall
    /\ out' = NoOut
    /\ UNCHANGED registry

Next ==
    \/ CreateElements
    \/ CheckElements
    \/ DeleteElements
    \/ ResolveKeynodes
    \/ GetLinkContent
    \/ GetLinksByContent
    \/ SetLinkContents
    \/ EventsCreate
    \/ EventsDestroy
    \/ GenerateTemplate
    \/ SearchTemplate
    \/ Return

Spec == Init /\ [][Next]_vars

TypeOK ==
    /\ pc \in {"idle", "done"}
    /\ DOMAIN registry \subseteq Ids
    /\ \A i \in DOMAIN registry : registry[i] \in Events /\ registry[i].id = i

\* ---- properties ----
Done(kind) == pc = "done" /\ call.kind = kind
Payload == call.response.payload
SameElsewhere(ids) ==
    \A i \in Ids \ ids :
        /\ i \in DOMAIN registry <=> i \in DOMAIN call.pre
        /\ i \in DOMAIN registry => registry[i] = call.pre[i]
IdsOf(events) == {events[k].id : k \in 1..Len(events)}
Elems(s) == {s[k] : k \in 1..Len(s)}

\* C1: an event-create decode of N descriptors with N acknowledged ids returns
\* N events in submission order, the i-th with the i-th id and the i-th
\* descriptor's event type and callback; afterwards every acknowledged id is
\* in the registry and the entries of the other ids are as before.
C1_CreateAligned ==
    (Done("EVENTS_CREATE") /\ Payload.type = "list"
        /\ Len(Payload.val) = Len(call.events))
    => /\ out.err = "none"
       /\ out.ret.type = "list"
       /\ Len(out.ret.val) = Len(call.events)
       /\ \A i \in 1..Len(call.events) :
            /\ out.ret.val[i].id = Payload.val[i]
            /\ out.ret.val[i].event_type = call.events[i].event_type
            /\ out.ret.val[i].callback = call.events[i].callback
       /\ \A i \in 1..Len(Payload.val) : Payload.val[i] \in DOMAIN registry
       /\ SameElsewhere(Elems(Payload.val))

C1_Witness ==
    /\ Done("EVENTS_CREATE")
    /\ Payload.type = "list"
    /\ Len(Payload.val) = 2
    /\ Len(call.events) = 2
    /\ Payload.val[1] # Payload.val[2]
    /\ call.events[1] # call.events[2]
    /\ call.pre = EmptyRegistry
    /\ DOMAIN registry = {Payload.val[1], Payload.val[2]}

\* C2: an event-create decode whose acknowledgement holds fewer ids than there
\* are descriptors fails with a protocol-violation error detected before any
\* descriptor is paired: nothing is registered.
C2_ShortAckRejected ==
    (Done("EVENTS_CREATE") /\ Payload.type = "list"
        /\ Len(Payload.val) < Len(call.events))
    => /\ out.err = "ProtocolViolation"
       /\ registry = call.pre

\* C3: an event-destroy decode unregisters the id of every descriptor of the
\* request whatever the status, returns the envelope's status flag, and
\* leaves the entries of all other ids as they were.
C3_DestroyUnconditional ==
    Done("EVENTS_DESTROY")
    => /\ out.err = "none"
       /\ PyEq(out.ret, PyBool(call.response.status))
       /\ \A k \in 1..Len(call.events) : call.events[k].id \notin DOMAIN registry
       /\ SameElsewhere(IdsOf(call.events))

C3_Witness ==
    /\ Done("EVENTS_DESTROY")
    /\ call.response.status = FALSE
    /\ Len(call.events) = 2
    /\ call.events[1].id # call.events[2].id
    /\ IdsOf(call.events) \subseteq DOMAIN call.pre
    /\ PyEq(out.ret, PyBool(FALSE))
    /\ registry = EmptyRegistry

\* C4: the registry never holds an entry for which no Subscription Event was
\* returned to a caller. The registry starts empty, so this is: every entry an
\* event decode adds or replaces is one of the events that decode returned
\* (a decode that raises returns none).
C4_RegistryOnlyReturned ==
    (pc = "done" /\ call.kind \in {"EVENTS_CREATE", "EVENTS_DESTROY"})
    => \A i \in DOMAIN registry :
          (i \notin DOMAIN call.pre \/ registry[i] # call.pre[i])
          => /\ call.kind = "EVENTS_CREATE"
             /\ out.err = "none"
             /\ out.ret.type = "list"
             /\ registry[i] \in Elems(out.ret.val)

\* C5: with status false, template search returns an empty sequence and
\* template generate returns the absent result for every payload, without
\* reading the payload and without raising.
C5_FailureIgnoresPayload ==
    (pc = "done" /\ call.kind \in {"SEARCH_TEMPLATE", "GENERATE_TEMPLATE"}
        /\ ~call.response.status)
    => /\ out.err = "none"
       /\ common.PAYLOAD \notin out.reads
       /\ call.kind = "SEARCH_TEMPLATE" => PyEq(out.ret, PyList(<<>>))
       /\ call.kind = "GENERATE_TEMPLATE" => PyEq(out.ret, PyNone)

C5_Witness ==
    /\ Done("SEARCH_TEMPLATE")
    /\ ~call.response.status
    /\ Payload.type = "list"
    /\ PyEq(out.ret, PyList(<<>>))

\* C6: when status is true and an expected payload field is missing (the
\* payload, aliases or addrs of a template payload, type or value of the
\* link-content element), the decode raises; it returns no result built from
\* a substituted default.
MissingField ==
    \/ /\ call.kind \in {"SEARCH_TEMPLATE", "GENERATE_TEMPLATE"}
       /\ \/ Payload.type = "NoneType"
          \/ /\ Payload.type = "dict"
             /\ \/ Payload.val.aliases.type = "NoneType"
                \/ Payload.val.addrs.type = "NoneType"
    \/ /\ call.kind = "GET_LINK_CONTENT"
       /\ \/ Payload.type = "NoneType"
          \/ /\ Payload.type = "list"
             /\ Len(Payload.val) > 0
             /\ \/ Payload.val[1].type.type = "NoneType"
                \/ Payload.val[1].value.type = "NoneType"

C6_MissingFieldRaises ==
    (pc = "done" /\ call.response.status /\ MissingField) => out.err # "none"

\* C7: resolve-keynodes returns the Element Addresses of a non-empty payload
\* in order, and returns an empty or absent payload itself, unmodified.
C7_KeynodesPassthrough ==
    Done("KEYNODES")
    => /\ out.err = "none"
       /\ IF Truthy(Payload)
          THEN /\ out.ret.type = "list"
               /\ Len(out.ret.val) = Len(Payload.val)
               /\ \A i \in 1..Len(Payload.val) : out.ret.val[i] = ScAddr(Payload.val[i])
          ELSE PyEq(out.ret, Payload)

\* C8: link-content decode maps the first element's tag by exact match,
\* "string", "int", "binary", "float" to their content kinds and any other
\* or missing tag to kind 0, never raising; the value is passed through.
C8_LinkContentKinds ==
    (Done("GET_LINK_CONTENT") /\ Payload.type = "list" /\ Len(Payload.val) > 0)
    => LET e == Payload.val[1]
           kind == out.ret.content_type
       IN  /\ out.err = "none"
           /\ PyEq(out.ret.data, e.value)
           /\ PyEq(e.type, PyStr("string")) => PyEq(kind, ScLinkContentType.STRING)
           /\ PyEq(e.type, PyStr("int")) => PyEq(kind, ScLinkContentType.INT)
           /\ PyEq(e.type, PyStr("binary")) => PyEq(kind, ScLinkContentType.BINARY)
           /\ PyEq(e.type, PyStr("float")) => PyEq(kind, ScLinkContentType.FLOAT)
           /\ (e.type.type # "str"
                 \/ e.type.val \notin {"string", "int", "binary", "float"})
              => PyEq(kind, PyInt(0))

C8_Witness ==
    /\ Done("GET_LINK_CONTENT")
    /\ Payload.type = "list"
    /\ Len(Payload.val) > 0
    /\ PyEq(Payload.val[1].type, PyStr("float"))
    /\ PyEq(Payload.val[1].value, PyInt(42))
    /\ PyEq(out.ret.content_type, ScLinkContentType.FLOAT)
    /\ PyEq(out.ret.data, PyInt(42))

\* C9: template search with status true returns one Template Result per inner
\* sequence of addrs, in order, the k-th holding the k-th sequence's ids as
\* Element Addresses in order, each with the payload's aliases mapping.
C9_SearchResults ==
    (Done("SEARCH_TEMPLATE") /\ call.response.status /\ Payload.type = "dict"
        /\ Payload.val.addrs.type = "list")
    => LET addrs == Payload.val.addrs.val IN
       /\ out.err = "none"
       /\ out.ret.type = "list"
       /\ Len(out.ret.val) = Len(addrs)
       /\ \A k \in 1..Len(addrs) :
            /\ Len(out.ret.val[k].addrs) = Len(addrs[k])
            /\ \A j \in 1..Len(addrs[k]) : out.ret.val[k].addrs[j] = ScAddr(addrs[k][j])
            /\ PyEq(out.ret.val[k].aliases, Payload.val.aliases)

C9_Witness ==
    /\ Done("SEARCH_TEMPLATE")
    /\ call.response.status
    /\ Payload.type = "dict"
    /\ PyEq(Payload.val.aliases, PyDict([x |-> 0]))
    /\ PyEq(Payload.val.addrs, PyList(<< <<10, 20>>, <<20, 10>> >>))
    /\ out.ret.type = "list"
    /\ Len(out.ret.val) = 2
    /\ out.ret.val[1].addrs = <<ScAddr(10), ScAddr(20)>>
    /\ out.ret.val[2].addrs = <<ScAddr(20), ScAddr(10)>>

\* C10: dispatch invokes the processor registered for the command kind, and
\* for the nine kinds other than event create and destroy the registry after
\* the dispatch is the registry before it, whether the decode returns or raises.
RegisteredFor(kind) ==
    CASE kind = "CREATE_ELEMENTS" -> "CreateElementsResponseProcessor"
      [] kind = "CHECK_ELEMENTS" -> "CheckElementsResponseProcessor"
      [] kind = "DELETE_ELEMENTS" -> "DeleteElementsResponseProcessor"
      [] kind = "KEYNODES" -> "ResolveKeynodesResponseProcessor"
      [] kind = "GET_LINK_CONTENT" -> "GetLinkContentResponseProcessor"
      [] kind = "GET_LINKS_BY_CONTENT" -> "GetLinksByContentResponseProcessor"
      [] kind = "SET_LINK_CONTENTS" -> "SetLinkContentResponseProcessor"
      [] kind = "EVENTS_CREATE" -> "EventsCreateResponseProcessor"
      [] kind = "EVENTS_DESTROY" -> "EventsDestroyResponseProcessor"
      [] kind = "GENERATE_TEMPLATE" -> "TemplateGenerateResponseProcessor"
      [] kind = "SEARCH_TEMPLATE" -> "TemplateSearchResponseProcessor"

C10_DispatchFrame ==
    pc = "done"
    => /\ out.by = RegisteredFor(call.kind)
       /\ call.kind \notin {"EVENTS_CREATE", "EVENTS_DESTROY"} => registry = call.pre

C10_Witness ==
    /\ Done("DELETE_ELEMENTS")
    /\ Len(call.events) = 1
    /\ call.events[1].id \in DOMAIN call.pre
    /\ registry = call.pre
    /\ out.err = "none"

====
